---- MODULE Spec2Model ----
(***************************************************************************)
(* Model of server.js: the POST /process-mp3 pipeline that embeds an       *)
(* uploaded image as album artwork into an uploaded MP3.  server.js holds  *)
(* two server programs, the enhanced one (HEIC conversion and resizing,    *)
(* lines 1-167) and the baseline one (lines 168-292).  The model covers    *)
(* the multer disk storage, the request handler with its catch block, and  *)
(* the deferred clean-up timer, for NumReq requests that share one uploads *)
(* directory and one clock.                                                *)
(*                                                                         *)
(* Node runs a handler to completion between two awaits, so every action   *)
(* below is one such run: from the start of the handler, or from the       *)
(* settling of an awaited promise, to the next await or to the end.        *)
(***************************************************************************)
EXTENDS FiniteSets, Integers, Sequences, TLC

\* Bounds of the model.
NumReq == 2
MaxTick == 1

Requests == 1..NumReq

(***************************************************************************)
(* Strings the code inspects are sequences of characters, so that          *)
(* toLowerCase and endsWith are computed and not assumed.                  *)
(***************************************************************************)
toLowerCase(s) ==
    [i \in DOMAIN s |->
        CASE s[i] = "H" -> "h"
          [] s[i] = "E" -> "e"
          [] s[i] = "I" -> "i"
          [] s[i] = "C" -> "c"
          [] s[i] = "F" -> "f"
          [] OTHER -> s[i]]

endsWith(s, suffix) ==
    /\ Len(s) >= Len(suffix)
    /\ SubSeq(s, Len(s) - Len(suffix) + 1, Len(s)) = suffix

DotHeic == <<".", "h", "e", "i", "c">>
DotHeif == <<".", "h", "e", "i", "f">>
ModifiedMp3 == <<"m", "o", "d", "i", "f", "i", "e", "d", ".", "m", "p", "3">>

\* Original filenames and declared mime-types a client may send.
AudioNames == { <<"a", ".", "m", "p", "3">>, ModifiedMp3 }
ImageNames == { <<"c", ".", "p", "n", "g">>, <<"i", ".", "H", "E", "I", "C">>,
                <<"i", ".", "h", "e", "i", "f">>, ModifiedMp3 }
MimeTypes == { "image/jpeg", "image/png", "image/heic", "image/heif", "text/plain" }

supportedFormats == { "image/jpeg", "image/jpg", "image/png", "image/gif" }

\* What NodeID3.write may hand back: true, false, another value that reports
\* failure (undefined, an Error object), or a thrown exception.
TagResults == { "true", "false", "undefined", "Error", "throws" }

(***************************************************************************)
(* The uploads directory: a function from the paths that exist to the      *)
(* contents of the file.  A path is <<timestamp, name>>, which stands for  *)
(* the string timestamp + '-' + name (the timestamp holds no '-', so two   *)
(* such strings are equal exactly when the pairs are).                     *)
(***************************************************************************)
StoredName(t, originalname) == <<t, originalname>>

OutputPath(t) == <<t, ModifiedMp3>>

NoPath == <<>>

Exists(f, p) == p \in DOMAIN f

WriteFile(f, p, c) == [q \in DOMAIN f \cup {p} |-> IF q = p THEN c ELSE f[q]]

RemoveFile(f, p) == [q \in DOMAIN f \ {p} |-> f[q]]

\* File contents: whose upload the bytes are, and for a tagged file who wrote
\* the tags, the artwork mime-type they carry and whose image the artwork is.
AudioOf(r) == [kind |-> "audio", of |-> r, tagger |-> 0, mime |-> "", art |-> 0]
ImageOf(r) == [kind |-> "image", of |-> r, tagger |-> 0, mime |-> "", art |-> 0]

VARIABLES
    variant,    \* which of the two programs of server.js runs
    now,        \* Date.now()
    fs,         \* the ./uploads directory
    files,      \* req.files of each request
    pc,         \* where each request's handler stands
    buf,        \* imageBuffer / resizedImageBuffer of each request
    out,        \* outputPath of each request
    tags,       \* tags.image.mime of each request
    tagged,     \* contents of the output file right after NodeID3.write
    resp,       \* the responses sent for each request, in order
    log,        \* the pipeline stages each request has run, in order
    tried,      \* the paths each request has called fs.unlinkSync on
    errs        \* 'Cleanup error:' lines logged for each request

vars == <<variant, now, fs, files, pc, buf, out, tags, tagged, resp, log, tried, errs>>

NoFiles == [defined |-> FALSE, mp3 |-> <<>>, image |-> <<>>]

Init ==
    /\ variant \in {"enhanced", "baseline"}
    /\ now = 0
    /\ fs = <<>>
    /\ files = [r \in Requests |-> NoFiles]
    /\ pc = [r \in Requests |-> "new"]
    /\ buf = [r \in Requests |-> <<>>]
    /\ out = [r \in Requests |-> NoPath]
    /\ tags = [r \in Requests |-> ""]
    /\ tagged = [r \in Requests |-> <<>>]
    /\ resp = [r \in Requests |-> <<>>]
    /\ log = [r \in Requests |-> <<>>]
    /\ tried = [r \in Requests |-> {}]
    /\ errs = [r \in Requests |-> 0]

\* The clock moves on between any two steps.
Tick ==
    /\ now < MaxTick
    /\ now' = now + 1
    /\ UNCHANGED <<variant, fs, files, pc, buf, out, tags, tagged, resp, log, tried, errs>>

(***************************************************************************)
(* What a client sends: whether the body is multipart at all, the parts    *)
(* it holds (each at most once: maxCount 1) with the filename and the      *)
(* mime-type it declares, and whether the clock ticks between the storing  *)
(* of the audio part and of the image part.                                *)
(***************************************************************************)
Part(n, m) == [originalname |-> n, mimetype |-> m]

NotMultipart == [multipart |-> FALSE, mp3 |-> <<>>, image |-> <<>>, gap |-> 0]

ClientRequests ==
    {NotMultipart} \cup
    { [multipart |-> TRUE, mp3 |-> a, image |-> i, gap |-> d] :
        a \in {<<>>} \cup { <<Part(n, "audio/mpeg")>> : n \in AudioNames },
        i \in {<<>>} \cup { <<Part(n, m)>> : n \in ImageNames, m \in MimeTypes },
        d \in {0, 1} }

\* The requests that matter when several are in flight: well-formed ones, whose
\* names may or may not coincide.
ConcurrentRequests ==
    { [multipart |-> TRUE, mp3 |-> <<Part(n, "audio/mpeg")>>, image |-> <<i>>,
       gap |-> 0] :
        n \in AudioNames,
        i \in { Part(<<"c", ".", "p", "n", "g">>, "image/png"),
                Part(<<"i", ".", "H", "E", "I", "C">>, "image/heic") } }

(***************************************************************************)
(* multer (lines 19-35, 58-61): upload.fields stores each part under       *)
(* Date.now() + '-' + originalname before the handler runs.  A body that   *)
(* is not multipart leaves req.files undefined.                            *)
(***************************************************************************)
Stored(part, t) ==
    [path |-> StoredName(t, part.originalname), originalname |-> part.originalname,
     mimetype |-> part.mimetype]

Upload(r, q) ==
    /\ pc[r] = "new"
    /\ \A o \in Requests : o < r => pc[o] # "new"
    /\ now + q.gap <= MaxTick
    /\ q.gap = 1 => q.mp3 # <<>> /\ q.image # <<>>
    /\ LET mp3 == IF q.mp3 = <<>> THEN <<>> ELSE <<Stored(q.mp3[1], now)>>
           image == IF q.image = <<>> THEN <<>> ELSE <<Stored(q.image[1], now + q.gap)>>
           f1 == IF mp3 # <<>> THEN WriteFile(fs, mp3[1].path, AudioOf(r)) ELSE fs
           f2 == IF image # <<>> THEN WriteFile(f1, image[1].path, ImageOf(r)) ELSE f1
       IN  /\ fs' = f2
           /\ files' = [files EXCEPT ![r] =
                          [defined |-> q.multipart, mp3 |-> mp3, image |-> image]]
    /\ now' = now + q.gap
    /\ pc' = [pc EXCEPT ![r] = "handler"]
    /\ UNCHANGED <<variant, buf, out, tags, tagged, resp, log, tried, errs>>

(***************************************************************************)
(* The handler's working state: the directory and the request's own        *)
(* fields, threaded through the statements of one run.                     *)
(***************************************************************************)
Ctx(r) ==
    [fs |-> fs, pc |-> pc[r], buf |-> buf[r], out |-> out[r], tags |-> tags[r],
     tagged |-> tagged[r], resp |-> resp[r], log |-> log[r], tried |-> tried[r],
     errs |-> errs[r]]

Commit(r, c) ==
    /\ fs' = c.fs
    /\ pc' = [pc EXCEPT ![r] = c.pc]
    /\ buf' = [buf EXCEPT ![r] = c.buf]
    /\ out' = [out EXCEPT ![r] = c.out]
    /\ tags' = [tags EXCEPT ![r] = c.tags]
    /\ tagged' = [tagged EXCEPT ![r] = c.tagged]
    /\ resp' = [resp EXCEPT ![r] = c.resp]
    /\ log' = [log EXCEPT ![r] = c.log]
    /\ tried' = [tried EXCEPT ![r] = c.tried]
    /\ errs' = [errs EXCEPT ![r] = c.errs]
    /\ UNCHANGED <<variant, now, files>>

Stage(c, stage, res) == [c EXCEPT !.log = Append(@, [stage |-> stage, res |-> res])]

\* A response: res.send(buffer) or res.status(500).json({error}).
Send200(c, body) ==
    [Stage(c, "respond", "200") EXCEPT
        !.resp = Append(@, [status |-> 200, error |-> <<>>, body |-> <<body>>])]

Send500(c, message) ==
    [Stage(c, "respond", "500") EXCEPT
        !.resp = Append(@, [status |-> 500,
                            error |-> <<"Failed to process MP3: ", message>>,
                            body |-> <<>>])]

\* fs.unlinkSync(p): removes the file, or throws when there is none.
UnlinkSync(c, p) ==
    [c EXCEPT !.fs = IF Exists(c.fs, p) THEN RemoveFile(c.fs, p) ELSE c.fs,
              !.tried = @ \cup {p}]

(***************************************************************************)
(* A try block holding unlinkSync calls in a row with one catch after      *)
(* them: the first call that throws skips the calls after it, and the      *)
(* catch logs one line.                                                    *)
(***************************************************************************)
RECURSIVE UnlinkInOneTry(_, _)
UnlinkInOneTry(c, paths) ==
    IF paths = <<>> THEN c
    ELSE IF ~Exists(c.fs, Head(paths))
         THEN [UnlinkSync(c, Head(paths)) EXCEPT !.errs = @ + 1]
         ELSE UnlinkInOneTry(UnlinkSync(c, Head(paths)), Tail(paths))

\* The catch block with the clean-up outside any try: a throwing clean-up
\* escapes the handler and no response is sent.
CatchBlockCleanupUnguarded(c, fl, message) ==
    LET paths == (IF fl.mp3 # <<>> THEN <<fl.mp3[1].path>> ELSE <<>>) \o
                 (IF fl.image # <<>> THEN <<fl.image[1].path>> ELSE <<>>)
        cleaned == IF ~fl.defined THEN [c EXCEPT !.errs = @ + 1]
                   ELSE UnlinkInOneTry(c, paths)
    IN  IF cleaned.errs > c.errs
        THEN [cleaned EXCEPT !.pc = "done"]
        ELSE [Send500(cleaned, message) EXCEPT !.pc = "done"]

\* The catch block that forgets the image upload.
CatchBlockMp3Only(c, fl, message) ==
    LET cleaned ==
            IF ~fl.defined
            THEN [c EXCEPT !.errs = @ + 1]
            ELSE UnlinkInOneTry(c,
                    IF fl.mp3 # <<>> THEN <<fl.mp3[1].path>> ELSE <<>>)
    IN  [Send500(cleaned, message) EXCEPT !.pc = "done"]

\* The catch block of the handler (lines 148-160 / 274-286): clean-up, then
\* the one error response.
CatchBlock(c, fl, message) ==
    LET cleaned ==
            IF ~fl.defined
            THEN [c EXCEPT !.errs = @ + 1]    \* req.files['mp3'] itself throws
            ELSE UnlinkInOneTry(c,
                    (IF fl.mp3 # <<>> THEN <<fl.mp3[1].path>> ELSE <<>>) \o
                    (IF fl.image # <<>> THEN <<fl.image[1].path>> ELSE <<>>))
    IN  [Send500(cleaned, message) EXCEPT !.pc = "done"]

\* Line 125 / 251: the test the handler applies to what NodeID3.write returned.
WriteSucceeded(success) == success # "false"

\* What NodeID3.write leaves in the file when it returns true.
WithTags(content, r, mime, image) ==
    [content EXCEPT !.tagger = r, !.mime = mime, !.art = image.of]

\* The success branch sending the uploaded file instead of the tagged copy.
SuccessBranchSendsUpload(c, fl, outputPath, readOk) ==
    IF readOk /\ Exists(c.fs, fl.mp3[1].path)
    THEN [Send200(Stage(c, "read", "ok"), c.fs[fl.mp3[1].path]) EXCEPT !.pc = "timer"]
    ELSE CatchBlock(Stage(c, "read", "fail"), fl, "readFileSync failed")

\* The branch taken when the write counts as a success (lines 126-143 /
\* 252-269): read the output file, send it, and leave the clean-up to a timer.
SuccessBranch(c, fl, outputPath, readOk) ==
    IF readOk /\ Exists(c.fs, outputPath)
    THEN [Send200(Stage(c, "read", "ok"), c.fs[outputPath]) EXCEPT !.pc = "timer"]
    ELSE CatchBlock(Stage(c, "read", "fail"), fl, "readFileSync failed")

(***************************************************************************)
(* From the building of the tags to the end of the try block: no await,    *)
(* so one run.  t is Date.now(); copyOk, success and readOk are what       *)
(* copyFileSync, NodeID3.write and readFileSync come back with.            *)
(***************************************************************************)
EmbedBlock(c, fl, r, t, mime, copyOk, success, readOk) ==
    LET mp3Path == fl.mp3[1].path
        outputPath == OutputPath(t)
        c0 == [c EXCEPT !.tags = mime, !.out = outputPath]
    IN  IF ~(copyOk /\ Exists(c0.fs, mp3Path))
        THEN CatchBlock(Stage(c0, "copy", "fail"), fl, "copyFileSync failed")
        ELSE
          LET c1 == Stage([c0 EXCEPT !.fs = WriteFile(@, outputPath, c0.fs[mp3Path])],
                          "copy", "ok")
              c2 == Stage(IF success = "true"
                          THEN [c1 EXCEPT !.fs = WriteFile(@, outputPath,
                                    WithTags(c1.fs[outputPath], r, mime, c1.buf[1]))]
                          ELSE c1,
                          "write", success)
              c3 == [c2 EXCEPT !.tagged = <<c2.fs[outputPath]>>]
          IN  IF success = "throws"
              THEN CatchBlock(c2, fl, "NodeID3.write threw")
              ELSE IF WriteSucceeded(success)
                   THEN SuccessBranch(c3, fl, outputPath, readOk)
                   ELSE CatchBlock(c3, fl, "Failed to write ID3 tags")

\* Lines 72-75.
isHeic(imageFile) ==
    \/ endsWith(toLowerCase(imageFile.originalname), DotHeic)
    \/ endsWith(toLowerCase(imageFile.originalname), DotHeif)
    \/ imageFile.mimetype = "image/heic"
    \/ imageFile.mimetype = "image/heif"

\* tags.image.mime taken from the upload in both programs.
TagMimeDeclared(v, imageFile) == imageFile.mimetype

\* tags.image.mime: line 105 in the enhanced program, line 231 in the baseline one.
TagMime(v, imageFile) == IF v = "enhanced" THEN "image/jpeg" ELSE imageFile.mimetype

\* req.files['mp3'][0] or req.files['image'][0] throws a TypeError.
PartMissing(fl) == ~fl.defined \/ fl.mp3 = <<>> \/ fl.image = <<>>

(***************************************************************************)
(* Enhanced program, lines 61-87: from the start of the handler to the     *)
(* first await, which is a readFile of the image on either branch.         *)
(***************************************************************************)
HandlerEnhanced(r) ==
    /\ variant = "enhanced"
    /\ pc[r] = "handler"
    /\ LET fl == files[r]
           c == Ctx(r)
       IN  IF PartMissing(fl)
           THEN Commit(r, CatchBlock(c, fl, "Cannot read properties of undefined"))
           ELSE IF isHeic(fl.image[1])
                THEN Commit(r, [c EXCEPT !.pc = "readFile"])
                ELSE IF fl.image[1].mimetype \notin supportedFormats
                     THEN Commit(r, CatchBlock(Stage(c, "normalize", "fail"), fl,
                                               "Unsupported image format"))
                     ELSE Commit(r, [c EXCEPT !.pc = "readFile"])

\* fs.promises.readFile(imageFile.path) settles (line 45 or line 86).
ReadFileDone(r) ==
    /\ pc[r] = "readFile"
    /\ \E ok \in BOOLEAN :
        LET fl == files[r]
            c == Ctx(r)
            p == fl.image[1].path
        IN  IF ok /\ Exists(fs, p)
            THEN IF isHeic(fl.image[1])
                 THEN Commit(r, [c EXCEPT !.buf = <<fs[p]>>, !.pc = "heicConvert"])
                 ELSE Commit(r, [Stage(c, "normalize", "ok") EXCEPT
                                    !.buf = <<fs[p]>>, !.pc = "sharp"])
            ELSE Commit(r, CatchBlock(Stage(c, "normalize", "fail"), fl,
                                      IF isHeic(fl.image[1])
                                      THEN "Failed to convert HEIC image"
                                      ELSE "readFile failed"))

\* heicConvert settles (lines 46-54).
HeicConvertDone(r) ==
    /\ pc[r] = "heicConvert"
    /\ \E ok \in BOOLEAN :
        LET c == Ctx(r)
        IN  IF ok
            THEN Commit(r, [Stage(c, "normalize", "ok") EXCEPT
                               !.buf = <<[c.buf[1] EXCEPT !.kind = "jpeg"]>>,
                               !.pc = "sharp"])
            ELSE Commit(r, CatchBlock(Stage(c, "normalize", "fail"), files[r],
                                      "Failed to convert HEIC image"))

\* sharp(...).toBuffer() settles, and the handler runs on to its end
\* (lines 91-160).
SharpDone(r) ==
    /\ pc[r] = "sharp"
    /\ \E ok \in BOOLEAN, copyOk \in BOOLEAN, success \in TagResults, readOk \in BOOLEAN :
        LET fl == files[r]
            c == Ctx(r)
        IN  IF ok
            THEN Commit(r, EmbedBlock(
                    [Stage(c, "resize", "ok") EXCEPT
                        !.buf = <<[c.buf[1] EXCEPT !.kind = "jpeg3000"]>>],
                    fl, r, now, TagMime(variant, fl.image[1]), copyOk, success, readOk))
            ELSE Commit(r, CatchBlock(Stage(c, "resize", "fail"), fl, "sharp failed"))

(***************************************************************************)
(* Baseline program, lines 208-287: the handler holds no await, so the     *)
(* whole of it is one run.                                                 *)
(***************************************************************************)
HandlerBaseline(r) ==
    /\ variant = "baseline"
    /\ pc[r] = "handler"
    /\ \E ok \in BOOLEAN, copyOk \in BOOLEAN, success \in TagResults, readOk \in BOOLEAN :
        LET fl == files[r]
            c == Ctx(r)
        IN  IF PartMissing(fl)
            THEN Commit(r, CatchBlock(c, fl, "Cannot read properties of undefined"))
            ELSE IF fl.image[1].mimetype \notin supportedFormats
                 THEN Commit(r, CatchBlock(Stage(c, "normalize", "fail"), fl,
                                           "Unsupported image format"))
                 ELSE IF ~(ok /\ Exists(fs, fl.image[1].path))
                      THEN Commit(r, CatchBlock(Stage(c, "normalize", "fail"), fl,
                                                "readFileSync failed"))
                      ELSE Commit(r, EmbedBlock(
                              [Stage(c, "normalize", "ok") EXCEPT
                                  !.buf = <<fs[fl.image[1].path]>>],
                              fl, r, now, TagMime(variant, fl.image[1]),
                              copyOk, success, readOk))

\* The setTimeout callback of the success path (lines 135-143 / 261-269).
CleanupTimer(r) ==
    /\ pc[r] = "timer"
    /\ LET fl == files[r]
       IN  Commit(r, [UnlinkInOneTry(Ctx(r),
                         <<fl.mp3[1].path, fl.image[1].path, out[r]>>)
                     EXCEPT !.pc = "done"])

\* One request, with everything a client may send.
Next ==
    \/ Tick
    \/ \E q \in ClientRequests : Upload(1, q)
    \/ HandlerEnhanced(1)
    \/ ReadFileDone(1)
    \/ HeicConvertDone(1)
    \/ SharpDone(1)
    \/ HandlerBaseline(1)
    \/ CleanupTimer(1)

Spec == Init /\ [][Next]_vars

\* NumReq requests in flight at once, their runs interleaved at the awaits.
NextConcurrent ==
    \/ Tick
    \/ \E r \in Requests, q \in ConcurrentRequests : Upload(r, q)
    \/ \E r \in Requests : HandlerEnhanced(r)
    \/ \E r \in Requests : ReadFileDone(r)
    \/ \E r \in Requests : HeicConvertDone(r)
    \/ \E r \in Requests : SharpDone(r)
    \/ \E r \in Requests : HandlerBaseline(r)
    \/ \E r \in Requests : CleanupTimer(r)

SpecConcurrent == Init /\ [][NextConcurrent]_vars

\* The awaited promises settle and the handler runs on; no timeout cuts it.
Run(r) ==
    \/ HandlerEnhanced(r)
    \/ ReadFileDone(r)
    \/ HeicConvertDone(r)
    \/ SharpDone(r)
    \/ HandlerBaseline(r)

FairSpec == Spec /\ WF_vars(Run(1))

(***************************************************************************)
(* Vocabulary of the properties.                                           *)
(***************************************************************************)
Sent(r, status) == \E i \in DOMAIN resp[r] : resp[r][i].status = status

Ran(r, stage) == \E i \in DOMAIN log[r] : log[r][i].stage = stage

RanWith(r, stage, res) ==
    \E i \in DOMAIN log[r] : log[r][i].stage = stage /\ log[r][i].res = res

UploadPaths(r) ==
    { files[r].mp3[i].path : i \in DOMAIN files[r].mp3 } \cup
    { files[r].image[i].path : i \in DOMAIN files[r].image }

\* The temporary files of a request: its stored uploads and, once the copy
\* has made it, its output file.
TempPaths(r) ==
    UploadPaths(r) \cup (IF RanWith(r, "copy", "ok") THEN {out[r]} ELSE {})

\* All the paths a request uses.
UsedPaths(r) == UploadPaths(r) \cup (IF out[r] # NoPath THEN {out[r]} ELSE {})

\* The files in the directory that a request put there.
LeftBehind(r) ==
    { p \in TempPaths(r) \cap DOMAIN fs : fs[p].of = r \/ fs[p].tagger = r }

StageRank(stage) ==
    CASE stage = "normalize" -> 1
      [] stage = "resize" -> 2
      [] stage = "copy" -> 3
      [] stage = "write" -> 4
      [] stage = "read" -> 5
      [] stage = "respond" -> 6

StagesInOrder(r) ==
    /\ \A i, j \in DOMAIN log[r] :
          i < j => StageRank(log[r][i].stage) < StageRank(log[r][j].stage)
    /\ \A i \in DOMAIN log[r] :
          log[r][i].res \in {"fail", "throws"} =>
             /\ i + 1 = Len(log[r])
             /\ log[r][i + 1] = [stage |-> "respond", res |-> "500"]

(***************************************************************************)
(* C1: once the 500 response of a request is sent, none of the request's   *)
(* temporary files (audio upload, image upload, output file if the copy    *)
(* made it) is left in the uploads directory.                              *)
(***************************************************************************)
C1_ErrorLeavesNoTempFile ==
    \A r \in Requests : Sent(r, 500) => TempPaths(r) \cap DOMAIN fs = {}

(***************************************************************************)
(* C2: whenever NodeID3.write returns anything but an explicit success, or *)
(* throws, no 200 is sent and the response is the 500 whose message is     *)
(* "Failed to write ID3 tags".                                             *)
(***************************************************************************)
C2_AnyWriteFailureIsTagError ==
    \A r \in Requests :
        (Ran(r, "write") /\ ~RanWith(r, "write", "true")) =>
            /\ ~Sent(r, 200)
            /\ \E i \in DOMAIN resp[r] :
                  /\ resp[r][i].status = 500
                  /\ resp[r][i].error[2] = "Failed to write ID3 tags"

(***************************************************************************)
(* C3: a request that reaches the handler gets exactly one response, the   *)
(* 200 file body or the 500 JSON error: never two, and in the end one.     *)
(***************************************************************************)
C3_ExactlyOneResponse ==
    /\ [](\A r \in Requests :
            /\ Len(resp[r]) <= 1
            /\ pc[r] \in {"timer", "done"} => Len(resp[r]) = 1
            /\ \A i \in DOMAIN resp[r] : resp[r][i].status \in {200, 500})
    /\ \A r \in Requests : (pc[r] = "handler") ~> (Len(resp[r]) = 1)

\* A request whose clean-up threw inside the catch block has its response.
C3_Witness ==
    \E r \in Requests : errs[r] > 0 /\ Sent(r, 500) /\ pc[r] = "done"

(***************************************************************************)
(* C4: the temporary paths of two requests are disjoint.                   *)
(***************************************************************************)
C4_PathsOfRequestsDisjoint ==
    \A r1, r2 \in Requests : r1 # r2 => UsedPaths(r1) \cap UsedPaths(r2) = {}

(***************************************************************************)
(* C5: after a successful request has run its deferred clean-up, no file   *)
(* of that request is left in the uploads directory.                       *)
(***************************************************************************)
C5_SuccessLeavesNoFile ==
    \A r \in Requests : (Sent(r, 200) /\ pc[r] = "done") => LeftBehind(r) = {}

(***************************************************************************)
(* C6: a request that lacks the audio part, the image part or both is      *)
(* answered with the 500 error by the step that starts its handler: that   *)
(* step runs no pipeline stage, names no output file, and leaves none of   *)
(* the request's stored uploads in the directory.                          *)
(***************************************************************************)
C6_MissingPartFailsFirst ==
    [][\A r \in Requests :
        (pc[r] = "handler" /\ PartMissing(files[r]) /\ pc'[r] # pc[r]) =>
            /\ pc'[r] = "done"
            /\ Len(resp'[r]) = 1 /\ resp'[r][1].status = 500
            /\ log'[r] = <<[stage |-> "respond", res |-> "500"]>>
            /\ out'[r] = NoPath /\ buf'[r] = <<>>
            /\ UploadPaths(r) \cap DOMAIN fs' = {}
            /\ DOMAIN fs' \subseteq DOMAIN fs]_vars

\* A request with a stored audio upload and no image part has been answered.
C6_Witness ==
    \E r \in Requests :
        /\ files[r].mp3 # <<>> /\ files[r].image = <<>>
        /\ Sent(r, 500)

C8_StagesInOrderAndGated ==
    \A r \in Requests :
        /\ StagesInOrder(r)
        /\ out[r] # NoPath => Ran(r, "copy")
        /\ Sent(r, 200) => RanWith(r, "copy", "ok") /\ RanWith(r, "write", "true")

(***************************************************************************)
(* C9: when a deletion of a request's clean-up has failed, the deletion of *)
(* every other temporary file of that request was attempted all the same:  *)
(* once the request is done, no temporary file of it is left in the        *)
(* directory without unlinkSync having been called on it.                  *)
(***************************************************************************)
C9_FailedDeletionSkipsNone ==
    \A r \in Requests :
        (pc[r] = "done" /\ errs[r] > 0) =>
            (TempPaths(r) \cap DOMAIN fs) \subseteq tried[r]

(***************************************************************************)
(* C10: the body of a 200 response is the contents the output file had     *)
(* right after the tag write, read before the response was sent, and it    *)
(* stays so whether or not the deferred deletion has run.                  *)
(***************************************************************************)
C10_BodyIsTaggedOutput ==
    \A r \in Requests :
        \A i \in DOMAIN resp[r] :
            resp[r][i].status = 200 =>
                /\ resp[r][i].body = tagged[r]
                /\ pc[r] \in {"timer", "done"}
                /\ \E j, k \in DOMAIN log[r] :
                      /\ j < k
                      /\ log[r][j] = [stage |-> "read", res |-> "ok"]
                      /\ log[r][k] = [stage |-> "respond", res |-> "200"]

\* The deferred deletion has removed the output file of a tagged response.
C10_Witness ==
    \E r \in Requests :
        /\ Sent(r, 200) /\ pc[r] = "done"
        /\ RanWith(r, "write", "true")
        /\ out[r] \notin DOMAIN fs
        /\ out[r] # files[r].mp3[1].path

====
